---------------------------- MODULE Spec2Model ----------------------------
(***************************************************************************)
(* MetaQuant NGX: the repository layer (corporate_filings, securities,     *)
(* eod_prices tables in DuckDB, one connection per store access), the      *)
(* disclosure provider's table location and row extraction, the disclosure *)
(* ingestion pipeline, and the price list normalization with its CLI.      *)
(*                                                                         *)
(* A pandas DataFrame is a record [columns, rows]: columns is the set of   *)
(* its column names as written by the caller, rows the sequence of its     *)
(* rows, each a record keyed by the canonical (lower-case) field names.    *)
(* A SQL NULL / Python None is the value NULL.  Calendar dates are ISO     *)
(* strings ordered by DateOrd.                                             *)
(***************************************************************************)
EXTENDS Integers, Sequences, FiniteSets, TLC

VARIABLES
    corporate_filings,  \* table corporate_filings: sequence of rows, insertion order
    securities,         \* table securities: set of rows (ticker is the PRIMARY KEY)
    eod_prices,         \* table eod_prices: sequence of rows, insertion order
    sec_latest,         \* history: ticker -> row of the latest successful upsert of it
    price_log,          \* history: row -> number of times it was ingested
    last,               \* observation of the latest call: arguments, outcome, effect
    conn,               \* the call inside a with get_connection block, and the open connections
    opened              \* history: the number of connections opened so far

vars == <<corporate_filings, securities, eod_prices, sec_latest, price_log, last,
          conn, opened>>

NULL == "NULL"

----------------------------------------------------------------------------
(* Bounds of the model *)

\* largest number of rows in one DataFrame handed to an upsert / fetched page
MaxBatch == 2
\* largest number of rows the three tables hold together
MaxStored == 2
\* largest number of tables in one rendered document
MaxTables == 2
\* largest number of connections opened in one behaviour
MaxCalls == 3

----------------------------------------------------------------------------
(* Generic helpers *)

Range(s) == {s[i] : i \in 1..Len(s)}

SeqsUpTo(S, n) == UNION {[1..k -> S] : k \in 0..n}

\* the subsequence of s at the positions in idx, in order
RECURSIVE PickIdx(_, _, _)
PickIdx(s, idx, i) ==
    IF i > Len(s) THEN <<>>
    ELSE (IF i \in idx THEN <<s[i]>> ELSE <<>>) \o PickIdx(s, idx, i + 1)

\* list comprehension [c for c in required if c not in keys]
ListMissing(required, keys) == SelectSeq(required, LAMBDA c : c \notin keys)

----------------------------------------------------------------------------
(* Column names and str.lower() *)

\* the upper-case spelling of every canonical column name
UpperOf ==
    [company_name |-> "COMPANY_NAME", symbol |-> "SYMBOL",
     disclosure_title |-> "DISCLOSURE_TITLE", disclosure_type |-> "DISCLOSURE_TYPE",
     disclosure_date |-> "DISCLOSURE_DATE", source_url |-> "SOURCE_URL",
     pdf_url |-> "PDF_URL", local_pdf_path |-> "LOCAL_PDF_PATH",
     ticker |-> "TICKER", company |-> "COMPANY", sector |-> "SECTOR",
     industry |-> "INDUSTRY",
     date |-> "DATE", open |-> "OPEN", high |-> "HIGH", low |-> "LOW",
     close |-> "CLOSE", volume |-> "VOLUME"]

\* every column name a caller may write
ColumnNames == DOMAIN UpperOf \cup {UpperOf[k] : k \in DOMAIN UpperOf} \cup {"extra"}

\* str.lower() on the column names
LowerTable ==
    [c \in ColumnNames |->
        IF \E k \in DOMAIN UpperOf : UpperOf[k] = c
        THEN CHOOSE k \in DOMAIN UpperOf : UpperOf[k] = c
        ELSE c]

\* c.lower()
Lower(c) == LowerTable[c]

\* keys of cols = {c.lower(): c for c in df.columns}
ColsKeys(df) == {Lower(c) : c \in df.columns}

\* variant: the columns compared as written, without lower()
M_MissingColumns_CaseSensitive(df, required) == ListMissing(required, df.columns)

\* missing = [c for c in required if c not in cols]
MissingColumns(df, required) == ListMissing(required, ColsKeys(df))

\* the headers offered to an upsert: the required columns less a few of them,
\* spelled in lower case, or in upper case next to a column the table lacks
Headers(required, droppable) ==
    {Range(required) \ drop : drop \in SUBSET droppable}
    \cup
    {{UpperOf[c] : c \in Range(required) \ drop} \cup {"extra"} :
        drop \in SUBSET droppable}

\* a row of a frame with header h: the cells of r under the columns h has
RowFor(h, r) == [c \in {Lower(x) : x \in h} \cap DOMAIN r |-> r[c]]

\* the DataFrames offered to an upsert: every batch of at most n of the rows
\* under the canonical header, and one sample row under every other header
Frames(required, droppable, rows, sample, n) ==
    {[columns |-> Range(required), rows |-> b] : b \in SeqsUpTo(rows, n)}
    \cup
    {[columns |-> h, rows |-> <<RowFor(h, sample)>>] :
        h \in Headers(required, droppable) \ {Range(required)}}

\* df.rename(columns={cols[c]: c for c in required})[required]
Normalized(df, required) ==
    [i \in 1..Len(df.rows) |-> [c \in Range(required) |-> df.rows[i][c]]]

NoCall ==
    [op |-> "none", outcome |-> "none", columns |-> {}, n |-> 0, rows |-> <<>>,
     inserted |-> {}, replaced |-> {}, missing |-> <<>>, before |-> 0,
     repeat |-> FALSE,
     since |-> NULL, fetched |-> 0, batch |-> <<>>, downloads |-> {}, ret |-> 0,
     page_dates |-> <<>>,
     trading_date |-> NULL, error |-> "", resolved |-> <<>>, doc |-> <<>>, table |-> 0,
     symbols |-> [kind |-> "list", value |-> <<>>], start |-> NULL, end |-> NULL,
     out |-> [columns |-> <<>>, rows |-> <<>>]]

StoredRows == Len(corporate_filings) + Cardinality(securities) + Len(eod_prices)

----------------------------------------------------------------------------
(* FilingsRepository *)

FilingsRequired ==
    <<"company_name", "symbol", "disclosure_title", "disclosure_type",
      "disclosure_date", "source_url", "pdf_url", "local_pdf_path">>

Filing(company, sym, title, type, date, url, pdf, path) ==
    [company_name |-> company, symbol |-> sym, disclosure_title |-> title,
     disclosure_type |-> type, disclosure_date |-> date, source_url |-> url,
     pdf_url |-> pdf, local_pdf_path |-> path]

\* SELECT DISTINCT source_url FROM corporate_filings (NULL is one of the values)
StoredUrls(table) == {table[i].source_url : i \in 1..Len(table)}

\* variant: an INSERT without the WHERE clause
M_SqlNotIn_NoCheck(x, S) == "TRUE"

\* variant: WHERE source_url IS NULL OR source_url NOT IN (non-null stored URLs)
M_SqlNotIn_NullDistinct(x, S) ==
    IF x = NULL THEN "TRUE"
    ELSE IF x \in S THEN "FALSE"
    ELSE "TRUE"

\* SQL three-valued  x NOT IN (subquery result S): TRUE, FALSE or NULL
SqlNotIn(x, S) ==
    IF S = {} THEN "TRUE"
    ELSE IF x = NULL THEN "NULL"
    ELSE IF x \in S \ {NULL} THEN "FALSE"
    ELSE IF NULL \in S THEN "NULL"
    ELSE "TRUE"

\* positions of the rows of filings_df that pass the WHERE clause; the subquery
\* reads the table as it is before the statement inserts anything
FilingsSelected(table, rows) ==
    {i \in 1..Len(rows) : SqlNotIn(rows[i].source_url, StoredUrls(table)) = "TRUE"}

FilingsUpsert(df) ==
    LET missing  == MissingColumns(df, FilingsRequired)
        selected == FilingsSelected(corporate_filings, df.rows)
        call     == [NoCall EXCEPT !.op = "filings_upsert", !.columns = df.columns,
                                   !.n = Len(df.rows), !.rows = df.rows,
                                   !.before = Len(corporate_filings),
                                   !.repeat = (last.op = "filings_upsert"
                                               /\ last.columns = df.columns
                                               /\ last.rows = df.rows)]
    IN
    IF df.rows = <<>> THEN
        /\ last' = [call EXCEPT !.outcome = "noop"]
        /\ UNCHANGED <<corporate_filings, securities, eod_prices, sec_latest, price_log>>
    ELSE IF missing # <<>> THEN
        /\ last' = [call EXCEPT !.outcome = "ValueError", !.missing = missing]
        /\ UNCHANGED <<corporate_filings, securities, eod_prices, sec_latest, price_log>>
    ELSE
        /\ StoredRows + Cardinality(selected) <= MaxStored
        /\ corporate_filings' =
               corporate_filings \o PickIdx(Normalized(df, FilingsRequired), selected, 1)
        /\ last' = [call EXCEPT !.outcome = "ok", !.inserted = selected]
        /\ UNCHANGED <<securities, eod_prices, sec_latest, price_log>>

\* rows handed to FilingsRepository.upsert directly: one per URL (and one without
\* URL) that agree in every other field, and one more for the first URL that
\* differs from it in the title alone
FilingUrls == {NULL, "https://ngx/u1", "https://ngx/u2"}
FilingRows ==
    {Filing("MTN Nigeria", NULL, "Q1 results", NULL, "2024-01-02", u, NULL, NULL) :
        u \in FilingUrls}
    \cup
    {Filing("MTN Nigeria", NULL, "Board meeting", NULL, "2024-01-02",
            "https://ngx/u1", NULL, NULL)}

FilingSample ==
    Filing("MTN Nigeria", NULL, "Q1 results", NULL, "2024-01-02",
           "https://ngx/u2", NULL, NULL)

FilingFrames ==
    Frames(FilingsRequired, {"source_url", "local_pdf_path"}, FilingRows,
           FilingSample, MaxBatch)

----------------------------------------------------------------------------
(* SecurityRepository *)

SecurityRequired == <<"ticker", "company", "sector", "industry">>

Security(tk, co, sec, ind) ==
    [ticker |-> tk, company |-> co, sector |-> sec, industry |-> ind]

Tickers == {"MTNN", "ZENITHBANK"}

\* variant: a plain INSERT into a table without key
RECURSIVE M_InsertOrReplace_Append(_, _)
M_InsertOrReplace_Append(table, rows) ==
    IF rows = <<>> THEN table
    ELSE M_InsertOrReplace_Append(table \cup {Head(rows)}, Tail(rows))

\* variant: INSERT OR IGNORE
RECURSIVE M_InsertOrReplace_Ignore(_, _)
M_InsertOrReplace_Ignore(table, rows) ==
    IF rows = <<>> THEN table
    ELSE M_InsertOrReplace_Ignore(
             IF \E r \in table : r.ticker = Head(rows).ticker
             THEN table ELSE table \cup {Head(rows)},
             Tail(rows))

\* INSERT OR REPLACE of the rows in order: a row takes the place of the stored
\* row with its ticker, if any
RECURSIVE InsertOrReplace(_, _)
InsertOrReplace(table, rows) ==
    IF rows = <<>> THEN table
    ELSE InsertOrReplace({r \in table : r.ticker # Head(rows).ticker} \cup {Head(rows)},
                         Tail(rows))

\* the stored rows an INSERT OR REPLACE of rows removes
Replaced(table, rows) == {r \in table : \E i \in 1..Len(rows) : rows[i].ticker = r.ticker}

\* history: the last row of the batch for every ticker of it
LatestOf(rows, tk) ==
    LET at == {i \in 1..Len(rows) : rows[i].ticker = tk}
    IN  {rows[i] : i \in {j \in at : \A k \in at : k <= j}}

HasDuplicateTicker(rows) ==
    \E i, j \in 1..Len(rows) : i # j /\ rows[i].ticker = rows[j].ticker

\* Two rows of one statement with the same key: DuckDB releases differ, some
\* reject the statement, the others let the later row win.  engine is the
\* release in use.
Engines == {"rejects_duplicate_keys", "last_duplicate_wins"}

SecurityUpsert(df, engine) ==
    LET missing == MissingColumns(df, SecurityRequired)
        rows    == Normalized(df, SecurityRequired)
        call    == [NoCall EXCEPT !.op = "security_upsert", !.columns = df.columns,
                                  !.n = Len(df.rows),
                                  !.before = Cardinality(securities)]
    IN
    IF df.rows = <<>> THEN
        /\ last' = [call EXCEPT !.outcome = "noop"]
        /\ UNCHANGED <<corporate_filings, securities, eod_prices, sec_latest, price_log>>
    ELSE IF missing # <<>> THEN
        /\ last' = [call EXCEPT !.outcome = "ValueError", !.missing = missing]
        /\ UNCHANGED <<corporate_filings, securities, eod_prices, sec_latest, price_log>>
    ELSE IF \E i \in 1..Len(rows) : rows[i].ticker = NULL THEN
        \* PRIMARY KEY implies NOT NULL: the statement fails as a whole
        /\ last' = [call EXCEPT !.outcome = "ConstraintError"]
        /\ UNCHANGED <<corporate_filings, securities, eod_prices, sec_latest, price_log>>
    ELSE IF HasDuplicateTicker(rows) /\ engine = "rejects_duplicate_keys" THEN
        /\ last' = [call EXCEPT !.outcome = "ConstraintError"]
        /\ UNCHANGED <<corporate_filings, securities, eod_prices, sec_latest, price_log>>
    ELSE
        /\ StoredRows + Len(rows) <= MaxStored + Cardinality(Replaced(securities, rows))
        /\ securities' = InsertOrReplace(securities, rows)
        /\ sec_latest' = [tk \in Tickers |->
                            IF LatestOf(rows, tk) # {} THEN LatestOf(rows, tk)
                            ELSE sec_latest[tk]]
        /\ last' = [call EXCEPT !.outcome = "ok",
                                !.replaced = Replaced(securities, rows)]
        /\ UNCHANGED <<corporate_filings, eod_prices, price_log>>

SecurityRows ==
    {Security(tk, "MTN Nigeria Plc", p[1], p[2]) :
        tk \in Tickers,
        p \in {<<"Telecom", "Mobile">>, <<"ICT", "Mobile">>, <<NULL, NULL>>}}
    \cup {Security(NULL, "MTN Nigeria Plc", "Telecom", "Mobile")}

SecuritySample == Security("MTNN", "MTN Nigeria Plc", "Telecom", "Mobile")

SecurityFrames ==
    Frames(SecurityRequired, {"ticker", "sector"}, SecurityRows, SecuritySample,
           MaxBatch)

----------------------------------------------------------------------------
(* PriceRepository *)

PriceRequired == <<"date", "open", "high", "low", "close", "volume", "symbol">>

Price(d, o, h, l, c, v, sym) ==
    [date |-> d, open |-> o, high |-> h, low |-> l, close |-> c, volume |-> v,
     symbol |-> sym]

\* variant: rows whose (symbol, date) is stored are left out
M_PriceInsert_Dedup(table, rows) ==
    table \o SelectSeq(rows, LAMBDA r :
                 \A i \in 1..Len(table) :
                     ~(table[i].symbol = r.symbol /\ table[i].date = r.date))

\* INSERT INTO eod_prices SELECT * FROM eod_df
PriceInsert(table, rows) == table \o rows

PriceUpsert(df) ==
    LET missing == MissingColumns(df, PriceRequired)
        call    == [NoCall EXCEPT !.op = "price_upsert", !.columns = df.columns,
                                  !.n = Len(df.rows), !.rows = df.rows,
                                  !.before = Len(eod_prices),
                                  !.repeat = (last.op = "price_upsert"
                                              /\ last.columns = df.columns
                                              /\ last.rows = df.rows)]
    IN
    IF df.rows = <<>> THEN
        /\ last' = [call EXCEPT !.outcome = "noop"]
        /\ UNCHANGED <<corporate_filings, securities, eod_prices, sec_latest, price_log>>
    ELSE IF missing # <<>> THEN
        /\ last' = [call EXCEPT !.outcome = "ValueError", !.missing = missing]
        /\ UNCHANGED <<corporate_filings, securities, eod_prices, sec_latest, price_log>>
    ELSE
        /\ StoredRows + Len(df.rows) <= MaxStored
        /\ eod_prices' = PriceInsert(eod_prices, Normalized(df, PriceRequired))
        /\ price_log' = [r \in DOMAIN price_log |->
                           price_log[r] + Cardinality({i \in 1..Len(df.rows) :
                                                          df.rows[i] = r})]
        /\ last' = [call EXCEPT !.outcome = "ok"]
        /\ UNCHANGED <<corporate_filings, securities, sec_latest>>

PriceRows ==
    {Price(d, "10.0", "12.0", "9.5", "11.0", "1000", sym) :
        d \in {"2024-01-01", "2024-01-02"}, sym \in {"MTNN", "ZENITHBANK"}}

PriceSample == Price("2024-01-02", "10.0", "12.0", "9.5", "11.0", "1000", "MTNN")

PriceFrames ==
    Frames(PriceRequired, {"date", "close"}, PriceRows, PriceSample, MaxBatch)

----------------------------------------------------------------------------
(* NgxDisclosurePlaywrightProvider: the rows fetch_page builds *)

\* settings.NGX_CORP_DISCLOSURES_URL
BaseUrl == "https://ngxgroup.com/exchange/data/corporate-disclosures/"

\* _parse_date on the date texts of the model; any other text matches no format
ParseDate(text) ==
    CASE text = "02-Jan-2024" -> "2024-01-02"
      [] text = "01/01/2024"  -> "2024-01-01"
      [] OTHER                -> NULL

\* calendar order of the dates of the model
DateOrd == [d \in {"2024-01-01", "2024-01-02"} |-> IF d = "2024-01-01" THEN 1 ELSE 2]

\* urljoin(self.base_url, href) for a relative href without a leading slash
UrlJoin(base, href) == base \o href

\* source_url.lower().endswith(".pdf")
EndsWithPdf(url) == url \in {BaseUrl \o "filings/abc.pdf"}

OrNone(text) == IF text = "" THEN NULL ELSE text

\* the dict fetch_page appends for a table row with these cell texts and link
ParsedRow(cells) ==
    LET source_url == IF cells.href # NULL THEN UrlJoin(BaseUrl, cells.href) ELSE NULL
    IN  Filing(OrNone(cells.company), NULL, OrNone(cells.title), OrNone(cells.type),
               ParseDate(cells.date), source_url,
               IF source_url # NULL /\ EndsWithPdf(source_url) THEN source_url ELSE NULL,
               NULL)

\* table rows of the rendered page: a row with a page link, one with a PDF
\* link, an older one without link, and one whose date text matches no format
Cells(d, h) ==
    [company |-> "MTN Nigeria", title |-> "Q1 results", type |-> "", date |-> d,
     href |-> h]

PageCells ==
    {Cells("02-Jan-2024", "news/q1.html"), Cells("02-Jan-2024", "filings/abc.pdf"),
     Cells("01/01/2024", NULL), Cells("to be announced", "news/q1.html")}

\* the rows fetch_page can return: df[df["disclosure_title"].notna()]
FetchedRows == {r \in {ParsedRow(c) : c \in PageCells} : r.disclosure_title # NULL}

\* the methods NgxDisclosurePlaywrightProvider defines
ProviderMethods == {"__init__", "fetch_page", "_fetch_html_via_browser", "_parse_date"}

----------------------------------------------------------------------------
(* NgxDisclosurePlaywrightProvider.fetch_page: table location and extraction *)
(* A rendered document is the sequence of its <table> elements, a table the *)
(* sequence of its <tr> rows, a row its th / td cells and its first link.   *)

Th(text) == [tag |-> "th", text |-> text]

Td(text) == [tag |-> "td", text |-> text]

Tr(cells, href) == [cells |-> cells, href |-> href]

\* get_text(strip=True).lower() on the header texts of the model
CellLower ==
    [Company |-> "company", Disclosures |-> "disclosures", Issuer |-> "issuer",
     Subject |-> "subject", Released |-> "released", Headline |-> "headline",
     Date |-> "date", Price |-> "price", Home |-> "home", About |-> "about"]
    @@ ("Date Submitted" :> "date submitted")

\* the words of the four vocabularies that occur in a lower-cased header text
WordsIn ==
    [h \in {CellLower[c] : c \in DOMAIN CellLower} |->
        CASE h = "disclosures"    -> {"disclosure"}
          [] h = "date submitted" -> {"date", "submitted"}
          [] h \in {"company", "issuer", "subject", "released", "headline", "date"} -> {h}
          [] OTHER -> {}]

\* header_cells of a row: the lower-cased texts of its th and td cells
HeaderCells(row) == [i \in 1..Len(row.cells) |-> CellLower[row.cells[i].text]]

\* any(w in h for h in header_cells), for some w of words
AnyHas(header_cells, words) ==
    \E i \in 1..Len(header_cells) : WordsIn[header_cells[i]] \cap words # {}

\* has_company and (has_disclosures or has_date), on the table's first row
Matches(t) ==
    /\ t # <<>>
    /\ t[1].cells # <<>>
    /\ AnyHas(HeaderCells(t[1]), {"company", "issuer"})
    /\ \/ AnyHas(HeaderCells(t[1]), {"disclosure", "headline", "subject"})
       \/ AnyHas(HeaderCells(t[1]), {"date"})

\* variant: a loop without the break, the last matching table staying chosen
RECURSIVE M_LocateTable_NoBreak(_, _)
M_LocateTable_NoBreak(tables, i) ==
    IF i > Len(tables) THEN 0
    ELSE LET later == M_LocateTable_NoBreak(tables, i + 1)
         IN  IF later # 0 THEN later ELSE IF Matches(tables[i]) THEN i ELSE 0

\* for t in tables: ... disclosures_table = t; break  (0: disclosures_table is None)
RECURSIVE LocateTable(_, _)
LocateTable(tables, i) ==
    IF i > Len(tables) THEN 0
    ELSE IF Matches(tables[i]) THEN i
    ELSE LocateTable(tables, i + 1)

\* the first position of header_cells whose text contains cand (0: none)
FirstWith(header_cells, cand) ==
    IF \E i \in 1..Len(header_cells) : cand \in WordsIn[header_cells[i]]
    THEN CHOOSE i \in 1..Len(header_cells) :
             /\ cand \in WordsIn[header_cells[i]]
             /\ \A j \in 1..(i - 1) : cand \notin WordsIn[header_cells[j]]
    ELSE 0

\* find_idx(candidates): candidate by candidate, the first header position
\* that contains it (positions counted from 1; 0: None)
RECURSIVE FindIdx(_, _)
FindIdx(header_cells, candidates) ==
    IF candidates = <<>> THEN 0
    ELSE IF FirstWith(header_cells, Head(candidates)) # 0
         THEN FirstWith(header_cells, Head(candidates))
         ELSE FindIdx(header_cells, Tail(candidates))

\* cells = row.find_all("td")
TdCells(row) == SelectSeq(row.cells, LAMBDA c : c.tag = "td")

\* safe_get(idx)
SafeGet(cells, idx) == IF idx = 0 \/ idx > Len(cells) THEN "" ELSE cells[idx].text

\* the dicts appended to data for the rows after the header that have td cells
ExtractRows(t) ==
    LET header_cells == HeaderCells(t[1])
        issuer_idx   == FindIdx(header_cells, <<"issuer", "company", "security">>)
        title_idx    == FindIdx(header_cells, <<"disclosure", "title", "headline",
                                                "subject", "description">>)
        date_idx     == FindIdx(header_cells, <<"date", "submitted", "released">>)
        type_idx     == FindIdx(header_cells, <<"category", "type", "segment",
                                                "classification">>)
        body         == SelectSeq(Tail(t), LAMBDA row : TdCells(row) # <<>>)
    IN  [i \in 1..Len(body) |->
            ParsedRow([company |-> SafeGet(TdCells(body[i]), issuer_idx),
                       title   |-> SafeGet(TdCells(body[i]), title_idx),
                       type    |-> SafeGet(TdCells(body[i]), type_idx),
                       date    |-> SafeGet(TdCells(body[i]), date_idx),
                       href    |-> body[i].href])]

\* fetch_page on the rendered document tables: the frame returned or the
\* exception raised, and the position of the table chosen (0: none)
FetchPage(tables) ==
    LET k    == LocateTable(tables, 1)
        data == ExtractRows(tables[k])
    IN  IF tables = <<>> THEN
            [outcome |-> "returned", table |-> 0, rows |-> <<>>]
        ELSE IF k = 0 THEN
            [outcome |-> "returned", table |-> 0, rows |-> <<>>]
        ELSE IF Len(tables[k]) <= 1 THEN
            [outcome |-> "returned", table |-> k, rows |-> <<>>]
        ELSE IF data = <<>> THEN
            \* pd.DataFrame([]) has no columns: df["disclosure_title"] raises
            [outcome |-> "KeyError", table |-> k, rows |-> <<>>]
        ELSE
            [outcome |-> "returned", table |-> k,
             rows |-> SelectSeq(data, LAMBDA r : r.disclosure_title # NULL)]

FetchPageCall(tables) ==
    /\ last' = [NoCall EXCEPT !.op = "fetch_page", !.doc = tables,
                              !.outcome = FetchPage(tables).outcome,
                              !.table = FetchPage(tables).table,
                              !.rows = FetchPage(tables).rows,
                              !.n = Len(FetchPage(tables).rows)]
    /\ UNCHANGED <<corporate_filings, securities, eod_prices, sec_latest, price_log>>

DisclosureHeader == Tr(<<Th("Company"), Th("Disclosures"), Th("Date Submitted")>>, NULL)

\* the tables of the rendered documents
PageTables ==
    {\* a navigation table, a table without rows, a table whose first row is empty
     << Tr(<<Td("Home"), Td("About")>>, NULL) >>,
     <<>>,
     << Tr(<<>>, NULL), Tr(<<Td("MTN Nigeria"), Td("Q1 results")>>, NULL) >>,
     \* headers with an issuer but neither disclosure text nor date, and the reverse
     << Tr(<<Th("Company"), Th("Price")>>, NULL),
        Tr(<<Td("MTN Nigeria"), Td("11.0")>>, NULL) >>,
     << Tr(<<Th("Headline"), Th("Date")>>, NULL),
        Tr(<<Td("Q1 results"), Td("02-Jan-2024")>>, "news/q1.html") >>,
     \* the disclosures table: two rows, one linking a PDF
     << DisclosureHeader,
        Tr(<<Td("MTN Nigeria"), Td("Q1 results"), Td("02-Jan-2024")>>, "filings/abc.pdf"),
        Tr(<<Td("MTN Nigeria"), Td("Board meeting"), Td("01/01/2024")>>, NULL) >>,
     \* its header alone; its header over rows without td cells
     << DisclosureHeader >>,
     << DisclosureHeader, Tr(<<>>, NULL), Tr(<<Th("Company"), Th("Date")>>, NULL) >>,
     \* its header over a row without td cells and a data row
     << DisclosureHeader, Tr(<<>>, NULL),
        Tr(<<Td("MTN Nigeria"), Td("Q1 results"), Td("02-Jan-2024")>>, "news/q1.html") >>,
     \* its header over rows whose title cell is empty or absent
     << DisclosureHeader,
        Tr(<<Td("MTN Nigeria"), Td(""), Td("02-Jan-2024")>>, "news/q1.html"),
        Tr(<<Td("MTN Nigeria")>>, NULL) >>,
     \* td headers in another order, without a title column
     << Tr(<<Td("Date"), Td("Issuer")>>, NULL),
        Tr(<<Td("02-Jan-2024"), Td("Zenith Bank")>>, "news/q1.html") >>,
     \* other header words: issuer, subject, released
     << Tr(<<Th("Issuer"), Th("Subject"), Th("Released")>>, NULL),
        Tr(<<Td("Zenith Bank"), Td("Dividend"), Td("02-Jan-2024")>>, NULL) >>}

\* the rendered documents
Documents == SeqsUpTo(PageTables, MaxTables)

----------------------------------------------------------------------------
(* etl.ngx_disclosure_pipeline.run *)

\* variant: a filter that lets the rows without a date through
M_DateFilter_KeepsUndated(page, since) ==
    IF since = NULL THEN page
    ELSE SelectSeq(page, LAMBDA r :
             r.disclosure_date = NULL \/ DateOrd[r.disclosure_date] >= DateOrd[since])

\* df[df["disclosure_date"].notna() & (df["disclosure_date"] >= since)]
DateFilter(page, since) ==
    IF since = NULL THEN page
    ELSE SelectSeq(page, LAMBDA r :
             r.disclosure_date # NULL /\ DateOrd[r.disclosure_date] >= DateOrd[since])

\* the rows for which run evaluates provider.download_pdf: if pdf_url
NeedsDownload(df) == {i \in 1..Len(df) : df[i].pdf_url # NULL}

\* variant: the number of rows the repository stored
M_RunReturn_Inserted(df, selected) == Cardinality(selected)

\* return len(df)
RunReturn(df, selected) == Len(df)

Run(page, since) ==
    LET df       == DateFilter(page, since)
        withPath == [i \in 1..Len(df) |-> [df[i] EXCEPT !.local_pdf_path = NULL]]
        selected == FilingsSelected(corporate_filings, withPath)
        call     == [NoCall EXCEPT !.op = "run", !.since = since,
                                   !.fetched = Len(page),
                                   !.page_dates =
                                       [i \in 1..Len(page) |-> page[i].disclosure_date],
                                   !.before = Len(corporate_filings)]
    IN
    IF page = <<>> \/ df = <<>> THEN
        \* return 0 before any download or write
        /\ last' = [call EXCEPT !.outcome = "returned", !.ret = 0]
        /\ UNCHANGED <<corporate_filings, securities, eod_prices, sec_latest, price_log>>
    ELSE IF NeedsDownload(df) # {} /\ "download_pdf" \notin ProviderMethods THEN
        \* the first row with a pdf_url: the provider has no attribute download_pdf
        /\ last' = [call EXCEPT !.outcome = "AttributeError", !.batch = df]
        /\ UNCHANGED <<corporate_filings, securities, eod_prices, sec_latest, price_log>>
    ELSE
        \* no row has a pdf_url: every local path is None; repo.upsert(df)
        /\ NeedsDownload(df) = {}
        /\ StoredRows + Cardinality(selected) <= MaxStored
        /\ corporate_filings' = corporate_filings \o PickIdx(withPath, selected, 1)
        /\ last' = [call EXCEPT !.outcome = "returned", !.batch = df,
                                !.columns = Range(FilingsRequired),
                                !.n = Len(withPath), !.rows = withPath,
                                !.inserted = selected,
                                !.ret = RunReturn(withPath, selected)]
        /\ UNCHANGED <<securities, eod_prices, sec_latest, price_log>>

Sinces == {NULL, "2024-01-02"}

----------------------------------------------------------------------------
(* PriceRepository.fetch *)

\* the symbols argument of fetch: a str, or a list of str
SymbolStr(s) == [kind |-> "str", value |-> s]

SymbolList(l) == [kind |-> "list", value |-> l]

\* if isinstance(symbols, str): symbols = [symbols]
AsList(symbols) == IF symbols.kind = "str" THEN <<symbols.value>> ELSE symbols.value

\* SQL  date >= ?  /  date <= ?  as a WHERE condition (a NULL date passes neither)
DateAtLeast(d, start) == d # NULL /\ DateOrd[d] >= DateOrd[start]

DateAtMost(d, end) == d # NULL /\ DateOrd[d] <= DateOrd[end]

\* SELECT * FROM eod_prices WHERE symbol IN (?, ...) [AND date >= ?] [AND date <= ?]
\* with no placeholder at all the statement is  symbol IN ()  and does not parse
PriceQuery(table, symbols, start, end) ==
    IF AsList(symbols) = <<>> THEN
        [outcome |-> "ParserException", rows |-> <<>>]
    ELSE
        [outcome |-> "ok",
         rows |-> SelectSeq(table, LAMBDA r :
                      /\ r.symbol # NULL
                      /\ r.symbol \in Range(AsList(symbols))
                      /\ start # NULL => DateAtLeast(r.date, start)
                      /\ end # NULL => DateAtMost(r.date, end))]

PriceFetch(symbols, start, end) ==
    /\ last' = [NoCall EXCEPT !.op = "price_fetch", !.symbols = symbols,
                              !.start = start, !.end = end,
                              !.before = Len(eod_prices),
                              !.outcome = PriceQuery(eod_prices, symbols, start, end).outcome,
                              !.rows = PriceQuery(eod_prices, symbols, start, end).rows]
    /\ UNCHANGED <<corporate_filings, securities, eod_prices, sec_latest, price_log>>

\* the symbols arguments of the model
SymbolArgs ==
    {SymbolStr("MTNN"), SymbolList(<<>>), SymbolList(<<"MTNN">>),
     SymbolList(<<"ZENITHBANK", "MTNN">>), SymbolList(<<"DANGCEM">>)}

\* the start and end arguments of the model
DateBounds == {NULL, "2024-01-01", "2024-01-02"}

----------------------------------------------------------------------------
(* NgxEodProvider: load_file and _normalize_columns *)

\* c.lower() on the column names of the price list files of the model
HeaderLower ==
    [Symbol |-> "symbol", TICKER |-> "ticker", Open |-> "open", High |-> "high",
     Low |-> "low", Close |-> "close", Price |-> "price", LAST |-> "last",
     Volume |-> "volume", Vol |-> "vol", Date |-> "date"]
    @@ ("Close Price" :> "close price") @@ ("Volume Traded" :> "volume traded")

\* cols_lower = {c.lower(): c for c in raw.columns}
ColsLower(raw) ==
    [k \in {HeaderLower[c] : c \in raw.columns} |->
        CHOOSE c \in raw.columns : HeaderLower[c] = k]

\* the candidate names that are substrings of a lower-cased column name
CandidatesIn ==
    [n \in {HeaderLower[c] : c \in DOMAIN HeaderLower} |->
        CASE n = "close price"   -> {"close", "price"}
          [] n = "volume traded" -> {"volume", "vol"}
          [] n = "volume"        -> {"volume", "vol"}
          [] OTHER               -> {n}]

\* variant: the first column whose lower-cased name contains a candidate
RECURSIVE M_ResolveColumn_Substring(_, _)
M_ResolveColumn_Substring(cols_lower, candidates) ==
    IF candidates = <<>> THEN NULL
    ELSE IF \E k \in DOMAIN cols_lower : Head(candidates) \in CandidatesIn[k]
         THEN cols_lower[CHOOSE k \in DOMAIN cols_lower :
                             Head(candidates) \in CandidatesIn[k]]
         ELSE M_ResolveColumn_Substring(cols_lower, Tail(candidates))

\* cols_lower.get(a) or cols_lower.get(b) or ...: the column under the first
\* candidate that is a key of cols_lower, None when none is
RECURSIVE ResolveColumn(_, _)
ResolveColumn(cols_lower, candidates) ==
    IF candidates = <<>> THEN NULL
    ELSE IF Head(candidates) \in DOMAIN cols_lower THEN cols_lower[Head(candidates)]
    ELSE ResolveColumn(cols_lower, Tail(candidates))

\* the names looked up for each of the six columns
EodCandidates ==
    [symbol |-> <<"symbol", "ticker">>, open |-> <<"open">>, high |-> <<"high">>,
     low |-> <<"low">>, close |-> <<"close", "price", "last">>,
     volume |-> <<"volume", "vol">>]

\* the order of the (name, col) pairs the missing list is built from
EodFields == <<"symbol", "open", "high", "low", "close", "volume">>

\* symbol_col, open_col, high_col, low_col, close_col, volume_col
EodResolved(raw) ==
    [f \in Range(EodFields) |-> ResolveColumn(ColsLower(raw), EodCandidates[f])]

\* missing = [name for name, col in [...] if col is None]
EodMissing(raw) == SelectSeq(EodFields, LAMBDA f : EodResolved(raw)[f] = NULL)

\* pd.to_datetime(v).dt.date on the date cells of the model: the calendar day
\* of a timestamp, NaT for a missing cell, an error for any other text
ToDatetimeDate(v) ==
    CASE v = "2024-01-01"          -> "2024-01-01"
      [] v = "2024-01-02 15:30:00" -> "2024-01-02"
      [] v = NULL                  -> NULL
      [] OTHER                     -> "DateParseError"

\* str(v).strip().upper() on the symbol cells of the model
CleanSymbol(v) ==
    CASE v = " mtnn "     -> "MTNN"
      [] v = "ZENITHBANK" -> "ZENITHBANK"
      [] v = NULL         -> "NAN"

\* fillna(0).astype("int64") on the volume cells of the model
VolumeInt(v) ==
    CASE v = "1000"   -> "1000"
      [] v = "1000.5" -> "1000"
      [] v = NULL     -> "0"
      [] OTHER        -> "ValueError"

\* variant: the file's date column is preferred to the supplied date
M_AttachDate_SourceFirst(raw, trading_date) ==
    LET date_col == IF "date" \in DOMAIN ColsLower(raw) THEN ColsLower(raw)["date"]
                    ELSE NULL
        dates    == [i \in 1..Len(raw.rows) |-> ToDatetimeDate(raw.rows[i][date_col])]
    IN  IF date_col # NULL THEN
            IF \E i \in 1..Len(raw.rows) : dates[i] = "DateParseError"
            THEN [outcome |-> "DateParseError", error |-> "Unknown datetime string format",
                  dates |-> <<>>]
            ELSE [outcome |-> "ok", error |-> "", dates |-> dates]
        ELSE IF trading_date # NULL THEN
            [outcome |-> "ok", error |-> "",
             dates |-> [i \in 1..Len(raw.rows) |-> trading_date]]
        ELSE [outcome |-> "ValueError",
              error |-> "No trading_date provided and no 'Date' column in file",
              dates |-> <<>>]

\* variant: without a date column and without a supplied date the date is left null
M_AttachDate_NullDate(raw, trading_date) ==
    LET date_col == IF "date" \in DOMAIN ColsLower(raw) THEN ColsLower(raw)["date"]
                    ELSE NULL
        dates    == [i \in 1..Len(raw.rows) |-> ToDatetimeDate(raw.rows[i][date_col])]
    IN  IF trading_date # NULL THEN
            [outcome |-> "ok", error |-> "",
             dates |-> [i \in 1..Len(raw.rows) |-> trading_date]]
        ELSE IF date_col # NULL THEN
            IF \E i \in 1..Len(raw.rows) : dates[i] = "DateParseError"
            THEN [outcome |-> "DateParseError", error |-> "Unknown datetime string format",
                  dates |-> <<>>]
            ELSE [outcome |-> "ok", error |-> "", dates |-> dates]
        ELSE [outcome |-> "ok", error |-> "",
              dates |-> [i \in 1..Len(raw.rows) |-> NULL]]

\* "Attach date": the supplied trading_date on every row, else the file's own
\* date column converted row by row, else a ValueError
AttachDate(raw, trading_date) ==
    LET date_col == IF "date" \in DOMAIN ColsLower(raw) THEN ColsLower(raw)["date"]
                    ELSE NULL
        dates    == [i \in 1..Len(raw.rows) |-> ToDatetimeDate(raw.rows[i][date_col])]
    IN  IF trading_date # NULL THEN
            [outcome |-> "ok", error |-> "",
             dates |-> [i \in 1..Len(raw.rows) |-> trading_date]]
        ELSE IF date_col # NULL THEN
            IF \E i \in 1..Len(raw.rows) : dates[i] = "DateParseError"
            THEN [outcome |-> "DateParseError", error |-> "Unknown datetime string format",
                  dates |-> <<>>]
            ELSE [outcome |-> "ok", error |-> "", dates |-> dates]
        ELSE [outcome |-> "ValueError",
              error |-> "No trading_date provided and no 'Date' column in file",
              dates |-> <<>>]

\* a call of _normalize_columns that raised
Raised(outcome, error, missing) ==
    [outcome |-> outcome, error |-> error, missing |-> missing,
     columns |-> <<>>, rows |-> <<>>]

\* _normalize_columns(raw, trading_date): the exception raised or the frame
\* returned, df[["date", "open", "high", "low", "close", "volume", "symbol"]]
NormalizeColumns(raw, trading_date) ==
    LET col     == EodResolved(raw)
        missing == EodMissing(raw)
        att     == AttachDate(raw, trading_date)
    IN  IF missing # <<>> THEN
            Raised("ValueError", "Could not infer NGX columns for", missing)
        ELSE IF att.outcome # "ok" THEN
            Raised(att.outcome, att.error, <<>>)
        ELSE IF \E i \in 1..Len(raw.rows) :
                    VolumeInt(raw.rows[i][col.volume]) = "ValueError" THEN
            Raised("ValueError", "invalid literal for int()", <<>>)
        ELSE
            [outcome |-> "ok", error |-> "", missing |-> <<>>,
             columns |-> <<"date", "open", "high", "low", "close", "volume", "symbol">>,
             rows |-> [i \in 1..Len(raw.rows) |->
                          Price(att.dates[i],
                                raw.rows[i][col.open], raw.rows[i][col.high],
                                raw.rows[i][col.low], raw.rows[i][col.close],
                                VolumeInt(raw.rows[i][col.volume]),
                                CleanSymbol(raw.rows[i][col.symbol]))]]

\* the observation of a call that normalized the file raw
EodCall(op, raw, trading_date, res) ==
    [NoCall EXCEPT !.op = op, !.columns = raw.columns, !.n = Len(raw.rows),
                   !.rows = raw.rows, !.trading_date = trading_date,
                   !.outcome = res.outcome, !.error = res.error,
                   !.missing = res.missing, !.resolved = EodResolved(raw),
                   !.out = [columns |-> res.columns, rows |-> res.rows],
                   !.before = Len(eod_prices)]

\* load_file(path, trading_date) on an existing file whose content reads as raw
LoadFile(raw, trading_date) ==
    /\ last' = EodCall("load_file", raw, trading_date,
                       NormalizeColumns(raw, trading_date))
    /\ UNCHANGED <<corporate_filings, securities, eod_prices, sec_latest, price_log>>

\* the headers of the price list files: for each group of columns, the
\* spellings the file has of it
EodHeaders ==
    {s \cup o \cup c \cup v \cup d :
        s \in {{}, {"Symbol"}, {"TICKER"}},
        o \in {{"Open", "High", "Low"}, {"Open", "Low"}, {}},
        c \in {{}, {"Close"}, {"Price"}, {"LAST"}, {"Price", "LAST"}, {"Close", "Price"},
               {"Close Price"}},
        v \in {{}, {"Volume"}, {"Vol"}, {"Volume Traded"}},
        d \in {{}, {"Date"}}}

\* the cell of a file row under column c
EodCell(c, sym, vol, d) ==
    CASE HeaderLower[c] \in {"symbol", "ticker"} -> sym
      [] HeaderLower[c] = "open" -> "10.0"
      [] HeaderLower[c] = "high" -> "12.0"
      [] HeaderLower[c] = "low" -> "9.5"
      [] HeaderLower[c] \in {"close", "close price"} -> "11.0"
      [] HeaderLower[c] = "price" -> "11.5"
      [] HeaderLower[c] = "last" -> "10.9"
      [] HeaderLower[c] \in {"volume", "vol", "volume traded"} -> vol
      [] HeaderLower[c] = "date" -> d

\* the row contents of the files: a plain file of two rows, one with missing
\* cells, one with a formatted volume, one with a date that is no date, and an
\* empty file
EodContents ==
    {<<>>,
     << <<" mtnn ", "1000", "2024-01-01">>, <<"ZENITHBANK", "1000.5", "2024-01-02 15:30:00">> >>,
     << <<NULL, NULL, NULL>> >>,
     << <<"ZENITHBANK", "1,000", "2024-01-01">> >>,
     << <<"ZENITHBANK", "1000", "next week">> >>}

\* the files offered to load_file, as pd.read_csv / pd.read_excel return them
EodFiles ==
    {[columns |-> h,
      rows |-> [i \in 1..Len(b) |-> [c \in h |-> EodCell(c, b[i][1], b[i][2], b[i][3])]]] :
        h \in EodHeaders, b \in EodContents}

\* the trading_date arguments of load_file
TradingDates == {NULL, "2024-01-03"}

----------------------------------------------------------------------------
(* scripts/ingest_ngx_eod.py: run_ingestion *)

\* datetime.strptime(text, "%Y-%m-%d").date() on the --date values of the model
Strptime(text) ==
    CASE text = "2024-01-02" -> "2024-01-02"
      [] OTHER               -> "ValueError"

\* dt: the parsed --date if one is given, else date.today()
IngestionDate(trading_date, today) ==
    IF trading_date # NULL /\ trading_date # "" THEN Strptime(trading_date) ELSE today

\* run_ingestion(file_path, trading_date) on a day today, the file reading as raw
RunIngestion(raw, trading_date, today) ==
    LET dt   == IngestionDate(trading_date, today)
        res  == NormalizeColumns(raw, dt)
        call == [EodCall("run_ingestion", raw, trading_date, res) EXCEPT !.since = dt]
    IN
    IF dt = "ValueError" THEN
        \* strptime raises before the file is read
        /\ last' = [NoCall EXCEPT !.op = "run_ingestion", !.columns = raw.columns,
                                  !.n = Len(raw.rows), !.rows = raw.rows,
                                  !.trading_date = trading_date,
                                  !.outcome = "ValueError",
                                  !.error = "time data does not match format",
                                  !.before = Len(eod_prices)]
        /\ UNCHANGED <<corporate_filings, securities, eod_prices, sec_latest, price_log>>
    ELSE IF res.outcome # "ok" \/ res.rows = <<>> THEN
        \* load_file raises, or repo.upsert returns on an empty frame
        /\ last' = call
        /\ UNCHANGED <<corporate_filings, securities, eod_prices, sec_latest, price_log>>
    ELSE
        \* repo.upsert(df): the frame has the seven required columns
        /\ StoredRows + Len(res.rows) <= MaxStored
        /\ eod_prices' = PriceInsert(eod_prices, res.rows)
        /\ price_log' = [r \in DOMAIN price_log |->
                           price_log[r] + Cardinality({i \in 1..Len(res.rows) :
                                                          res.rows[i] = r})]
        /\ last' = call
        /\ UNCHANGED <<corporate_filings, securities, sec_latest>>

\* the files handed to the CLI: with and without a Date column, or without a
\* close column
IngestFiles ==
    {[columns |-> h,
      rows |-> [i \in 1..Len(b) |-> [c \in h |-> EodCell(c, b[i][1], b[i][2], b[i][3])]]] :
        h \in {{"Symbol", "Open", "High", "Low", "Close", "Volume", "Date"},
               {"Symbol", "Open", "High", "Low", "Close", "Volume"},
               {"Symbol", "Open", "High", "Low", "Volume", "Date"}},
        b \in {c \in EodContents : Len(c) <= MaxBatch}}

\* the --date arguments: absent, a date, a text that is no ISO date
DateArgs == {NULL, "2024-01-02", "02/01/2024"}

\* the days the CLI runs on
Todays == {"2024-01-03", "2024-01-04"}

----------------------------------------------------------------------------
(* connection.get_connection and the with blocks of the repositories *)
(* The actions above are whole calls: the connection a call opens is closed *)
(* again within the step.  Here a call is followed through its with block,  *)
(* the statements' effect on the tables left aside.                         *)

\* the methods of the repositories that contain a with get_connection block
StoreOps ==
    {"FilingsRepository.__init__", "FilingsRepository.upsert",
     "FilingsRepository.fetch_latest", "FilingsRepository.fetch_since",
     "SecurityRepository.__init__", "SecurityRepository.upsert",
     "SecurityRepository.list_tickers",
     "PriceRepository.__init__", "PriceRepository.upsert", "PriceRepository.fetch"}

\* the methods that can return or raise before they reach their with block
\* (an empty frame, a missing column)
GuardedOps ==
    {"FilingsRepository.upsert", "SecurityRepository.upsert", "PriceRepository.upsert"}

NoConn ==
    [at |-> "idle", op |-> "none", con |-> 0, open |-> {}, result |-> "none"]

\* con = duckdb.connect(path): a new connection object, open
DuckdbConnect(open, id) == open \cup {id}

\* variant: a get_connection without try / finally, closing after the body
\* only when the body raised nothing
M_CloseOnExit_NoFinally(open, id, result) ==
    IF result = "raised" THEN open ELSE open \ {id}

\* finally: con.close()
CloseOnExit(open, id, result) == open \ {id}

\* a call of op returns or raises before its with block
NoAccess(op) ==
    /\ op \in GuardedOps
    /\ conn.at = "idle"
    /\ conn' = [conn EXCEPT !.op = op, !.result = "no access"]
    /\ UNCHANGED <<opened, corporate_filings, securities, eod_prices, sec_latest,
                   price_log, last>>

\* a call of op enters its with block: get_connection runs up to the yield
Enter(op) ==
    /\ conn.at = "idle"
    /\ opened < MaxCalls
    /\ opened' = opened + 1
    /\ conn' = [at |-> "with", op |-> op, con |-> opened + 1,
                open |-> DuckdbConnect(conn.open, opened + 1), result |-> "none"]
    /\ UNCHANGED <<corporate_filings, securities, eod_prices, sec_latest, price_log, last>>

\* duckdb.connect raises: no connection object exists, the call raises
ConnectRaises(op) ==
    /\ conn.at = "idle"
    /\ conn' = [conn EXCEPT !.op = op, !.result = "raised in connect"]
    /\ UNCHANGED <<opened, corporate_filings, securities, eod_prices, sec_latest,
                   price_log, last>>

\* the statements of the with block run to their end (the value to return is
\* computed), or one of them raises
Body(result) ==
    /\ conn.at = "with"
    /\ conn' = [conn EXCEPT !.at = "exit", !.result = result]
    /\ UNCHANGED <<opened, corporate_filings, securities, eod_prices, sec_latest,
                   price_log, last>>

\* the with block is left: get_connection resumes after the yield, runs its
\* finally clause, and the call returns or the exception propagates
Exit ==
    /\ conn.at = "exit"
    /\ conn' = [conn EXCEPT !.at = "idle",
                            !.open = CloseOnExit(conn.open, conn.con, conn.result)]
    /\ UNCHANGED <<opened, corporate_filings, securities, eod_prices, sec_latest,
                   price_log, last>>

----------------------------------------------------------------------------
(* Specifications *)

Init ==
    /\ corporate_filings = <<>>
    /\ securities = {}
    /\ eod_prices = <<>>
    /\ sec_latest = [tk \in Tickers |-> {}]
    /\ price_log = [r \in PriceRows |-> 0]
    /\ last = NoCall
    /\ conn = NoConn
    /\ opened = 0

\* FilingsRepository alone
NextFilings ==
    /\ \E df \in FilingFrames : FilingsUpsert(df)
    /\ UNCHANGED <<conn, opened>>

SpecFilings == Init /\ [][NextFilings]_vars

\* SecurityRepository alone
NextSecurities ==
    /\ \E df \in SecurityFrames, engine \in Engines : SecurityUpsert(df, engine)
    /\ UNCHANGED <<conn, opened>>

SpecSecurities == Init /\ [][NextSecurities]_vars

\* PriceRepository alone
NextPrices ==
    /\ \E df \in PriceFrames : PriceUpsert(df)
    /\ UNCHANGED <<conn, opened>>

SpecPrices == Init /\ [][NextPrices]_vars

\* the three repositories on one store, one-row batches
NextRepos ==
    /\ \/ \E df \in Frames(FilingsRequired, {"source_url", "local_pdf_path"},
                            FilingRows, FilingSample, 1) : FilingsUpsert(df)
       \/ \E df \in Frames(SecurityRequired, {"ticker", "sector"},
                            SecurityRows, SecuritySample, 1), engine \in Engines :
              SecurityUpsert(df, engine)
       \/ \E df \in Frames(PriceRequired, {"date", "close"},
                            PriceRows, PriceSample, 1) : PriceUpsert(df)
    /\ UNCHANGED <<conn, opened>>

SpecRepos == Init /\ [][NextRepos]_vars

\* disclosure pipeline runs
NextPipeline ==
    /\ \E page \in SeqsUpTo(FetchedRows, MaxBatch), since \in Sinces : Run(page, since)
    /\ UNCHANGED <<conn, opened>>

SpecPipeline == Init /\ [][NextPipeline]_vars

\* one price list file loaded and normalized; load_file reads and keeps no
\* state, so a behaviour is one call on one file
NextNormalize ==
    /\ last = NoCall
    /\ \E raw \in EodFiles, trading_date \in TradingDates : LoadFile(raw, trading_date)
    /\ UNCHANGED <<conn, opened>>

SpecNormalize == Init /\ [][NextNormalize]_vars

\* runs of the price ingestion CLI
NextIngest ==
    /\ \E raw \in IngestFiles, trading_date \in DateArgs, today \in Todays :
           RunIngestion(raw, trading_date, today)
    /\ UNCHANGED <<conn, opened>>

SpecIngest == Init /\ [][NextIngest]_vars

\* one rendered document parsed; fetch_page keeps no state between calls, so a
\* behaviour is one call on one document
NextFetchPage ==
    /\ last = NoCall
    /\ \E tables \in Documents : FetchPageCall(tables)
    /\ UNCHANGED <<conn, opened>>

SpecFetchPage == Init /\ [][NextFetchPage]_vars

\* PriceRepository: one-row upserts and fetches
NextPriceFetch ==
    /\ \/ \E df \in Frames(PriceRequired, {}, PriceRows, PriceSample, 1) : PriceUpsert(df)
       \/ \E symbols \in SymbolArgs, start \in DateBounds, end \in DateBounds :
              PriceFetch(symbols, start, end)
    /\ UNCHANGED <<conn, opened>>

SpecPriceFetch == Init /\ [][NextPriceFetch]_vars

\* the calls of the repositories, step by step through their with blocks
NextConnections ==
    \/ \E op \in StoreOps : NoAccess(op)
    \/ \E op \in StoreOps : Enter(op)
    \/ \E op \in StoreOps : ConnectRaises(op)
    \/ \E result \in {"returned", "raised"} : Body(result)
    \/ Exit

SpecConnections == Init /\ [][NextConnections]_vars

\* every call of the model on one store
Next ==
    \/ NextRepos
    \/ NextPipeline
    \/ NextPriceFetch
    \/ NextIngest
    \/ NextNormalize
    \/ NextFetchPage
    \/ NextConnections

Spec == Init /\ [][Next]_vars

----------------------------------------------------------------------------
(* Claims about FilingsRepository.upsert (checked under SpecFilings) *)

FilingsOk == last.op = "filings_upsert" /\ last.outcome = "ok"

\* the source_urls stored before the latest call
UrlsBefore == {corporate_filings[j].source_url : j \in 1..last.before}

\* the rows the latest call appended
Appended == SubSeq(corporate_filings, last.before + 1, Len(corporate_filings))

\* C1: a batch row whose non-null source_url was already stored before the call
\* is not inserted by that call, whatever its other fields are, and the call
\* raises no error: the rows it appends are the other rows only.
C1_StoredUrlNotReinserted ==
    /\ FilingsOk =>
          /\ \A i \in 1..Len(last.rows) :
                (last.rows[i].source_url # NULL
                 /\ last.rows[i].source_url \in UrlsBefore) => i \notin last.inserted
          /\ \A k \in 1..Len(Appended) :
                Appended[k].source_url # NULL => Appended[k].source_url \notin UrlsBefore
          /\ Len(Appended) = Cardinality(last.inserted)
    /\ (last.op = "filings_upsert" /\ last.rows # <<>>
         /\ Range(FilingsRequired) \subseteq ColsKeys(last))
        => last.outcome = "ok"

\* C1 witness: a call skipped a row with a stored URL (of another title) and
\* inserted another row of the same batch
C1_Witness ==
    /\ FilingsOk
    /\ last.inserted # {}
    /\ \E i \in 1..Len(last.rows) : \E j \in 1..last.before :
          /\ last.rows[i].source_url # NULL
          /\ last.rows[i].source_url = corporate_filings[j].source_url
          /\ last.rows[i].disclosure_title # corporate_filings[j].disclosure_title
          /\ i \notin last.inserted

\* C2 (as claimed): every batch row whose non-null source_url equals the
\* source_url of no stored row is inserted
C2_NewUrlInserted ==
    FilingsOk =>
        \A i \in 1..Len(last.rows) :
            (last.rows[i].source_url # NULL
             /\ last.rows[i].source_url \notin UrlsBefore) => i \in last.inserted

\* C3 (as claimed): every batch row whose source_url is null is inserted, a call
\* with k such rows adding k rows
C3_NullUrlInserted ==
    FilingsOk =>
        \A i \in 1..Len(last.rows) :
            last.rows[i].source_url = NULL => i \in last.inserted

\* C4 (as claimed): of two batch rows with the same non-null source_url, not yet
\* stored, and different titles, exactly one row is persisted: the first-seen
C4_FirstSeenOnly ==
    FilingsOk =>
        \A i, j \in 1..Len(last.rows) :
            (/\ i < j
             /\ last.rows[i].source_url # NULL
             /\ last.rows[i].source_url = last.rows[j].source_url
             /\ last.rows[i].disclosure_title # last.rows[j].disclosure_title
             /\ last.rows[i].source_url \notin UrlsBefore
             /\ \A h \in 1..(i - 1) : last.rows[h].source_url # last.rows[i].source_url)
            => /\ Cardinality({k \in 1..Len(corporate_filings) :
                      corporate_filings[k].source_url = last.rows[i].source_url}) = 1
               /\ \E k \in 1..Len(corporate_filings) :
                      corporate_filings[k] = last.rows[i]

\* C5: a call with the batch of the call right before it leaves the row count
\* of corporate_filings unchanged
C5_Idempotent ==
    (last.op = "filings_upsert" /\ last.repeat) =>
        Len(corporate_filings) = last.before

\* C5 witness: a batch with a null source_url was upserted twice in a row into
\* a table the first call had grown
C5_Witness ==
    /\ FilingsOk
    /\ last.repeat
    /\ last.before > 0
    /\ \E i \in 1..Len(last.rows) : last.rows[i].source_url = NULL
    /\ \E i \in 1..Len(last.rows) : last.rows[i].source_url # NULL

----------------------------------------------------------------------------
(* Claims about SecurityRepository.upsert (checked under SpecSecurities) *)

\* C6: after any sequence of upserts the securities table holds exactly one
\* row per ticker upserted so far, and it is, field for field, the row of the
\* most recent upsert of that ticker; the rows of other tickers are untouched.
C6_OneRowPerTicker ==
    /\ securities = UNION {sec_latest[tk] : tk \in Tickers}
    /\ \A tk \in Tickers :
          Cardinality({r \in securities : r.ticker = tk}) = Cardinality(sec_latest[tk])
    /\ \A r \in securities : r.ticker \in Tickers

\* C6 witness: MTNN was stored with sector Telecom, the latest upsert replaced
\* it, and the one MTNN row now has sector ICT
C6_Witness ==
    /\ last.op = "security_upsert"
    /\ last.outcome = "ok"
    /\ \E old \in last.replaced : old.ticker = "MTNN" /\ old.sector = "Telecom"
    /\ \E r \in securities : r.ticker = "MTNN" /\ r.sector = "ICT"
    /\ \E r \in securities : r.ticker = "ZENITHBANK"

----------------------------------------------------------------------------
(* Claims about PriceRepository.upsert (checked under SpecPrices) *)

\* C7: every upsert of a valid non-empty batch of n rows succeeds and appends
\* exactly its n rows, whatever is stored, so the table holds every row as
\* many times as it was ingested.
C7_AppendsAll ==
    /\ (last.op = "price_upsert" /\ last.n > 0
         /\ Range(PriceRequired) \subseteq ColsKeys(last))
        => /\ last.outcome = "ok"
           /\ Len(eod_prices) = last.before + last.n
           /\ \A i \in 1..last.n :
                 \A c \in Range(PriceRequired) :
                     eod_prices[last.before + i][c] = last.rows[i][c]
    /\ \A r \in DOMAIN price_log :
          Cardinality({i \in 1..Len(eod_prices) : eod_prices[i] = r}) = price_log[r]

\* C7 witness: the same batch was ingested twice in a row and is stored twice
C7_Witness ==
    /\ last.op = "price_upsert"
    /\ last.outcome = "ok"
    /\ last.repeat
    /\ last.before = last.n
    /\ Len(eod_prices) = 2 * last.n
    /\ eod_prices[1] = eod_prices[last.n + 1]

----------------------------------------------------------------------------
(* Claims about the three upserts (checked under SpecRepos) *)

RequiredOf(op) ==
    CASE op = "filings_upsert" -> FilingsRequired
      [] op = "security_upsert" -> SecurityRequired
      [] op = "price_upsert" -> PriceRequired

UpsertOps == {"filings_upsert", "security_upsert", "price_upsert"}

\* the required columns the frame of the latest call has under no spelling
Lacking == {c \in Range(RequiredOf(last.op)) : \A col \in last.columns : Lower(col) # c}

C8_NamesMissing ==
    last.op \in UpsertOps =>
        /\ (last.n > 0 /\ Lacking # {}) =>
              /\ last.outcome = "ValueError"
              /\ Range(last.missing) = Lacking
              /\ Len(last.missing) = Cardinality(Lacking)
        /\ last.outcome = "ValueError" => (last.n > 0 /\ Lacking # {})

C8_NoWrite ==
    last'.outcome = "ValueError" =>
        UNCHANGED <<corporate_filings, securities, eod_prices>>

\* C8: in each repository an upsert of a non-empty batch that lacks a required
\* column under every spelling fails with a ValueError that names exactly the
\* lacking columns, and the failing call writes nothing to any table.
C8_ValidationBeforeWrite == [](C8_NamesMissing) /\ [][C8_NoWrite]_vars

\* C8 witness: an upsert into a store that holds rows failed for two lacking
\* columns of a frame whose header is written in upper case
C8_Witness ==
    /\ last.op = "filings_upsert"
    /\ last.outcome = "ValueError"
    /\ Len(last.missing) = 2
    /\ \E col \in last.columns : Lower(col) # col
    /\ Len(corporate_filings) > 0
    /\ securities # {}

----------------------------------------------------------------------------
(* Claims about the disclosure pipeline run (checked under SpecPipeline) *)

\* C9 (as claimed): a run with a non-empty batch attempts a download for every
\* row with a pdf_url, is aborted by none of them, hands the full batch to
\* FilingsRepository.upsert and returns the batch count
C9_DownloadFailureIsolated ==
    (last.op = "run" /\ last.batch # <<>>) =>
        /\ last.outcome = "returned"
        /\ NeedsDownload(last.batch) \subseteq last.downloads
        /\ Len(last.rows) = Len(last.batch)
        /\ last.ret = Len(last.batch)

Qualifying ==
    {i \in 1..Len(last.page_dates) :
        /\ last.page_dates[i] # NULL
        /\ DateOrd[last.page_dates[i]] >= DateOrd[last.since]}

\* the fetch gave no rows, or a cutoff is given and no fetched row qualifies
NothingToIngest ==
    last.page_dates = <<>> \/ (last.since # NULL /\ Qualifying = {})

C11_EarlyExit ==
    last.op = "run" =>
        /\ NothingToIngest =>
              /\ last.outcome = "returned"
              /\ last.ret = 0
              /\ last.batch = <<>>
              /\ last.downloads = {}
              /\ last.inserted = {}
              /\ Len(corporate_filings) = last.before
        /\ ~NothingToIngest =>
              /\ last.batch # <<>>
              /\ ~(last.outcome = "returned" /\ last.ret = 0)
        /\ last.since # NULL =>
              \A i \in 1..Len(last.batch) :
                  /\ last.batch[i].disclosure_date # NULL
                  /\ DateOrd[last.batch[i].disclosure_date] >= DateOrd[last.since]

C11_NoWrite ==
    (last'.op = "run" /\ last'.batch = <<>>) => UNCHANGED <<corporate_filings, securities, eod_prices>>

\* C11: a run returns 0 early, before any download and without writing a row,
\* exactly when the fetch gave no rows or a cutoff is given and no fetched row
\* has a non-null disclosure_date on or after it; with a cutoff every row of
\* the batch that goes on to the download and persist steps has a non-null
\* disclosure_date on or after the cutoff.
C11_EarlyTermination == [](C11_EarlyExit) /\ [][C11_NoWrite]_vars

\* C11 witness: a run with a cutoff on a store that holds rows fetched an older
\* row and an undated row, and returned 0
C11_Witness ==
    /\ last.op = "run"
    /\ last.since = "2024-01-02"
    /\ last.before > 0
    /\ Len(corporate_filings) = last.before
    /\ \E i \in 1..Len(last.page_dates) : last.page_dates[i] = NULL
    /\ \E i \in 1..Len(last.page_dates) : last.page_dates[i] = "2024-01-01"
    /\ last.outcome = "returned"
    /\ last.ret = 0

----------------------------------------------------------------------------
(* Claims about NgxEodProvider._normalize_columns (checked under SpecNormalize) *)

\* the columns of the latest file whose lower-cased name is a candidate name of f
AliasesOf(f) ==
    {c \in last.columns : \E k \in 1..Len(EodCandidates[f]) :
                              HeaderLower[c] = EodCandidates[f][k]}

\* the six fields for which the latest file has no column
Uncovered == {f \in Range(EodFields) : AliasesOf(f) = {}}

\* the latest call got no trading date and its file has no date column
DateUncovered ==
    last.trading_date = NULL /\ \A c \in last.columns : HeaderLower[c] # "date"

ShapeError ==
    /\ last.outcome = "ValueError"
    /\ last.error \in {"Could not infer NGX columns for",
                       "No trading_date provided and no 'Date' column in file"}

\* C12: normalization fails with a shape error exactly when one of symbol,
\* open, high, low, close, volume has no matching source column or the date has
\* neither a source date column nor a supplied date; the error for the six
\* names exactly the uncovered ones; a failing call returns no table and a
\* successful one a table of all the file's rows with exactly the columns
\* date, open, high, low, close, volume, symbol in that order.
C12_FailsIffUncovered ==
    last.op = "load_file" =>
        /\ ShapeError <=> (Uncovered # {} \/ DateUncovered)
        /\ Uncovered # {} =>
              /\ Range(last.missing) = Uncovered
              /\ Len(last.missing) = Cardinality(Uncovered)
        /\ last.outcome # "ok" => last.out = [columns |-> <<>>, rows |-> <<>>]
        /\ last.outcome = "ok" =>
              /\ last.out.columns =
                     <<"date", "open", "high", "low", "close", "volume", "symbol">>
              /\ Len(last.out.rows) = last.n
              /\ \A i \in 1..Len(last.out.rows) :
                     DOMAIN last.out.rows[i] = Range(last.out.columns)

\* C12 witness: a file with rows and a column for each of the six fields, but
\* no date column, was loaded without a trading date and failed for the date
C12_Witness ==
    /\ last.op = "load_file"
    /\ last.n > 0
    /\ Uncovered = {}
    /\ DateUncovered
    /\ last.outcome = "ValueError"
    /\ last.error = "No trading_date provided and no 'Date' column in file"
    /\ last.out.rows = <<>>

\* C13: a supplied trading date is the date of every output row, also when the
\* file has a date column; without one, every output row has the calendar day
\* of its own row's date cell; with neither the normalization fails.
C13_DatePrecedence ==
    last.op = "load_file" =>
        /\ (last.outcome = "ok" /\ last.trading_date # NULL) =>
              \A i \in 1..Len(last.out.rows) : last.out.rows[i].date = last.trading_date
        /\ (last.outcome = "ok" /\ last.trading_date = NULL) =>
              /\ "Date" \in last.columns
              /\ \A i \in 1..Len(last.out.rows) :
                     last.out.rows[i].date = ToDatetimeDate(last.rows[i]["Date"])
        /\ DateUncovered => last.outcome = "ValueError"

\* C13 witness: a file whose two rows carry two dates of their own was loaded
\* with a trading date, and both output rows have the trading date
C13_Witness ==
    /\ last.op = "load_file"
    /\ last.outcome = "ok"
    /\ last.trading_date = "2024-01-03"
    /\ "Date" \in last.columns
    /\ last.n = 2
    /\ last.rows[1]["Date"] = "2024-01-01"
    /\ last.rows[2]["Date"] = "2024-01-02 15:30:00"
    /\ \A i \in 1..2 : last.out.rows[i].date = "2024-01-03"

\* C18 (as claimed): a field is resolved, and not reported missing, whenever a
\* column's lower-cased name is or contains one of the field's candidate names
C18_SubstringResolves ==
    last.op = "load_file" =>
        \A f \in Range(EodFields) :
            (\E c \in last.columns :
                 \E k \in 1..Len(EodCandidates[f]) :
                     EodCandidates[f][k] \in CandidatesIn[HeaderLower[c]])
            => /\ last.resolved[f] # NULL
               /\ f \notin Range(last.missing)

\* C18 (amended): a field is resolved exactly when a column's lower-cased name
\* equals one of the field's candidate names, and then to the column under the
\* first such candidate in the field's list; a column whose name only contains
\* a candidate name resolves nothing and its field is reported missing.
C18_ExactAliasResolves ==
    last.op = "load_file" =>
        \A f \in Range(EodFields) :
            /\ last.resolved[f] # NULL <=> AliasesOf(f) # {}
            /\ AliasesOf(f) = {} =>
                  /\ last.outcome = "ValueError"
                  /\ f \in Range(last.missing)
            /\ AliasesOf(f) # {} =>
                  /\ last.resolved[f] \in AliasesOf(f)
                  /\ f \notin Range(last.missing)
                  /\ \A c \in AliasesOf(f) :
                        \A j, k \in 1..Len(EodCandidates[f]) :
                            (/\ HeaderLower[last.resolved[f]] = EodCandidates[f][j]
                             /\ HeaderLower[c] = EodCandidates[f][k]) => j <= k

\* C18 witness: a file whose only close-like column is 'Close Price' and whose
\* only volume-like column is 'Volume Traded' failed, both fields missing,
\* while its TICKER column was resolved for symbol
C18_Witness ==
    /\ last.op = "load_file"
    /\ "Close Price" \in last.columns
    /\ "Volume Traded" \in last.columns
    /\ last.resolved["symbol"] = "TICKER"
    /\ last.outcome = "ValueError"
    /\ last.missing = <<"close", "volume">>

----------------------------------------------------------------------------
(* Claims about the price ingestion CLI (checked under SpecIngest) *)

\* C14 (as claimed): a run without --date on a file that has a Date column
\* (and a column for each of the six other fields, with readable cells) stores
\* each row of the file with the date of its Date cell
C14_FileDateUsed ==
    (/\ last.op = "run_ingestion"
     /\ last.trading_date = NULL
     /\ "Date" \in last.columns
     /\ Uncovered = {}
     /\ \A i \in 1..last.n :
           /\ ToDatetimeDate(last.rows[i]["Date"]) # "DateParseError"
           /\ VolumeInt(last.rows[i]["Volume"]) # "ValueError")
    => /\ last.outcome = "ok"
       /\ Len(eod_prices) = last.before + last.n
       /\ \A i \in 1..last.n :
             eod_prices[last.before + i].date = ToDatetimeDate(last.rows[i]["Date"])

----------------------------------------------------------------------------
(* Claims about fetch_page (checked under SpecFetchPage) *)

\* the lower-cased texts of the cells of the first row of table t
FirstRowTexts(t) ==
    IF t = <<>> THEN {} ELSE {CellLower[t[1].cells[i].text] : i \in 1..Len(t[1].cells)}

\* the first row of t has an issuer-like cell and a disclosure-text-like or a
\* date-like cell
Qualifies(t) ==
    /\ \E h \in FirstRowTexts(t) : "company" \in WordsIn[h] \/ "issuer" \in WordsIn[h]
    /\ \E h \in FirstRowTexts(t) :
          \/ WordsIn[h] \cap {"disclosure", "headline", "subject"} # {}
          \/ "date" \in WordsIn[h]

\* the texts of the td cells of the rows of table t after its first
BodyTexts(t) ==
    UNION {{t[i].cells[j].text : j \in 1..Len(t[i].cells)} : i \in 2..Len(t)}

\* C15: fetch_page chooses the first table, in document order, whose first row
\* has an issuer-like cell ('company' or 'issuer') and a disclosure-text-like
\* or date-like cell: no table before the chosen one qualifies, the chosen one
\* does, none is chosen when none qualifies, and the rows returned are rows of
\* the chosen table.
C15_FirstQualifyingTable ==
    last.op = "fetch_page" =>
        /\ last.table \in 0..Len(last.doc)
        /\ last.table = 0 <=> (\A i \in 1..Len(last.doc) : ~Qualifies(last.doc[i]))
        /\ last.table # 0 =>
              /\ Qualifies(last.doc[last.table])
              /\ \A i \in 1..(last.table - 1) : ~Qualifies(last.doc[i])
              /\ \A k \in 1..Len(last.rows) :
                     /\ last.rows[k].company_name \in BodyTexts(last.doc[last.table])
                     /\ last.rows[k].disclosure_title \in BodyTexts(last.doc[last.table])
        /\ last.table = 0 => last.rows = <<>>

\* C15 witness: of two tables only the second has the headers Company,
\* Disclosures, Date Submitted, and its two rows were returned
C15_Witness ==
    /\ last.op = "fetch_page"
    /\ Len(last.doc) = 2
    /\ ~Qualifies(last.doc[1])
    /\ Len(last.doc[1]) > 1
    /\ Len(last.doc[2]) = 3
    /\ HeaderCells(last.doc[2][1]) = <<"company", "disclosures", "date submitted">>
    /\ last.table = 2
    /\ last.outcome = "returned"
    /\ Len(last.rows) = 2
    /\ last.rows[2].disclosure_title = "Board meeting"

\* C16 (as claimed): fetch_page returns for every document; every row it
\* returns has a title; it returns no rows when the document has no table, no
\* table matches, or the matched table has, after its header, no row with
\* both a data cell and a title
C16_NeverRaises ==
    last.op = "fetch_page" =>
        /\ last.outcome = "returned"
        /\ \A k \in 1..Len(last.rows) : last.rows[k].disclosure_title # NULL
        /\ (\/ last.doc = <<>>
            \/ last.table = 0
            \/ \A i \in 2..Len(last.doc[last.table]) :
                  \/ TdCells(last.doc[last.table][i]) = <<>>
                  \/ \A r \in Range(ExtractRows(<<last.doc[last.table][1],
                                                    last.doc[last.table][i]>>)) :
                        r.disclosure_title = NULL)
           => last.rows = <<>>

----------------------------------------------------------------------------
(* Claims about PriceRepository.fetch (checked under SpecPriceFetch) *)

\* C17 (as claimed): for every symbol list, a single string standing for the
\* list of itself, and every optional start and end, fetch returns exactly the
\* stored rows whose symbol is in the list and whose date is on or after
\* start and on or before end, where given, and leaves the table as it was
C17_FetchExact ==
    last.op = "price_fetch" =>
        LET wanted == IF last.symbols.kind = "str" THEN {last.symbols.value}
                      ELSE Range(last.symbols.value)
        IN  /\ last.outcome = "ok"
            /\ last.rows =
                  SelectSeq(eod_prices, LAMBDA r :
                      /\ r.symbol \in wanted
                      /\ last.start # NULL => DateOrd[r.date] >= DateOrd[last.start]
                      /\ last.end # NULL => DateOrd[r.date] <= DateOrd[last.end])
            /\ Len(eod_prices) = last.before

----------------------------------------------------------------------------
(* Claims about the connections (checked under SpecConnections) *)

\* between calls no connection is open; inside a with block the one open
\* connection is the one the call opened
C19_ScopedToCall ==
    /\ conn.at = "idle" => conn.open = {}
    /\ conn.at # "idle" => conn.open = {conn.con}
    /\ conn.con \in 0..opened

\* the connection a call enters its with block with was never opened before,
\* and a call that leaves its with block, returning or raising, leaves it closed
C19_FreshAndClosed ==
    /\ (conn.at = "idle" /\ conn'.at = "with") =>
          /\ conn.open = {}
          /\ conn'.con \notin 1..opened
          /\ conn'.con \in conn'.open
    /\ (conn.at = "exit" /\ conn'.at = "idle") =>
          /\ conn.con \in conn.open
          /\ conn.con \notin conn'.open
          /\ conn'.open = {}

\* C19: every store access of the repositories (constructors, upsert, fetch,
\* fetch_latest, fetch_since, list_tickers) opens a connection of its own, not
\* opened before, and closes it before the call returns or raises: after any
\* sequence of calls, failing ones included, no connection is open, and no
\* connection is held from one call to the next.
C19_ConnectionPerCall == [](C19_ScopedToCall) /\ [][C19_FreshAndClosed]_vars

\* C19 witness: the second store access, a fetch whose statement raised, has
\* left its with block and no connection is open
C19_Witness ==
    /\ conn.at = "idle"
    /\ conn.op = "PriceRepository.fetch"
    /\ conn.result = "raised"
    /\ opened = 2
    /\ conn.con = 2
    /\ conn.open = {}

=============================================================================
